---- MODULE Spec2Model ----
(***************************************************************************)
(* A model of the ClipRelay client (client/src/cp_client.py): the pure     *)
(* extraction function extract_code and the ClientRunner state machine     *)
(* (run, _shutdown_ws, start_in_thread, stop).                             *)
(*                                                                         *)
(* Texts are sequences of characters.  An ASCII character is the string    *)
(* holding it; a character outside ASCII is named by its code point        *)
(* ("u9a8c" is U+9A8C), since the tools read ASCII only.                   *)
(***************************************************************************)
EXTENDS Integers, Sequences, FiniteSets, TLC

(***************************************************************************)
(* Part 1.  extract_code (cp_client.py lines 101-117)                      *)
(***************************************************************************)

\* \d of the regular expressions, for the characters the model uses.
Digits == {"0", "1", "2", "3", "4", "5", "6", "7", "8", "9"}

IsDigit(c) == c \in Digits

\* \s of the regular expressions and the characters str.strip() removes.
Spaces == {" ", "\t", "\n", "\r"}

IsSpace(c) == c \in Spaces

UpperCase ==
  <<"A", "B", "C", "D", "E", "F", "G", "H", "I", "J", "K", "L", "M",
    "N", "O", "P", "Q", "R", "S", "T", "U", "V", "W", "X", "Y", "Z">>

LowerCase ==
  <<"a", "b", "c", "d", "e", "f", "g", "h", "i", "j", "k", "l", "m",
    "n", "o", "p", "q", "r", "s", "t", "u", "v", "w", "x", "y", "z">>

\* re.IGNORECASE: letters are compared in lower case.
Lower(c) ==
  IF \E i \in 1..26 : UpperCase[i] = c
  THEN LowerCase[CHOOSE i \in 1..26 : UpperCase[i] = c]
  ELSE c

\* The bounds of the digit run \d{4,8} and of the gap \D{0,20}.
MinDigits == 4
MaxDigits == 8
MaxGap == 20

\* Pattern elements that are not literal characters: \s* and [-\s]*.
WsStar == "\\s*"
DashWsStar == "[-\\s]*"

\* The alternatives of the keyword group, in the order of the source; the
\* optional (?:password|passcode)? is written out as three alternatives.
Keywords ==
  << <<"u9a8c", "u8bc1", "u7801">>,
     <<"u6821", "u9a8c", "u7801">>,
     <<"u52a8", "u6001", "u7801">>,
     <<"u77ed", "u4fe1", "u7801">>,
     <<"u767b", "u5f55", "u7801">>,
     <<"u63d0", "u53d6", "u7801">>,
     <<"o", "t", "p">>,
     <<"p", "a", "s", "s", "c", "o", "d", "e">>,
     <<"v", "e", "r", "i", "f", "i", "c", "a", "t", "i", "o", "n", WsStar,
       "c", "o", "d", "e">>,
     <<"s", "e", "c", "u", "r", "i", "t", "y", WsStar, "c", "o", "d", "e">>,
     <<"o", "n", "e", DashWsStar, "t", "i", "m", "e", WsStar,
       "p", "a", "s", "s", "w", "o", "r", "d">>,
     <<"o", "n", "e", DashWsStar, "t", "i", "m", "e", WsStar,
       "p", "a", "s", "s", "c", "o", "d", "e">>,
     <<"o", "n", "e", DashWsStar, "t", "i", "m", "e", WsStar>>,
     <<"c", "o", "d", "e">> >>

\* The positions right after a match of pat[k..] that starts at t[i].
RECURSIVE MatchEnds(_, _, _, _)
MatchEnds(pat, k, t, i) ==
  IF k > Len(pat) THEN {i}
  ELSE IF pat[k] = WsStar THEN
    MatchEnds(pat, k + 1, t, i)
      \cup (IF i <= Len(t) /\ IsSpace(t[i])
            THEN MatchEnds(pat, k, t, i + 1) ELSE {})
  ELSE IF pat[k] = DashWsStar THEN
    MatchEnds(pat, k + 1, t, i)
      \cup (IF i <= Len(t) /\ (IsSpace(t[i]) \/ t[i] = "-")
            THEN MatchEnds(pat, k, t, i + 1) ELSE {})
  ELSE IF i <= Len(t) /\ Lower(t[i]) = pat[k]
    THEN MatchEnds(pat, k + 1, t, i + 1)
    ELSE {}

\* The positions right after a keyword that starts at t[i].
KeywordEnds(t, i) ==
  UNION {MatchEnds(Keywords[n], 1, t, i) : n \in 1..Len(Keywords)}

\* \d{4,8} without the lookbehind: digits may stand before the run.
RunLengthsAnywhere(t, p) ==
  {n \in MinDigits..MaxDigits :
     /\ p >= 1
     /\ p + n - 1 <= Len(t)
     /\ \A j \in p..(p + n - 1) : IsDigit(t[j])
     /\ (p + n - 1 = Len(t) \/ ~IsDigit(t[p + n]))}

\* (?<!\d)(\d{4,8})(?!\d) at position p: the lengths n such that t[p..p+n-1]
\* are digits, no digit stands before p and none after p+n-1.
RunLengths(t, p) ==
  {n \in MinDigits..MaxDigits :
     /\ p >= 1
     /\ p + n - 1 <= Len(t)
     /\ \A j \in p..(p + n - 1) : IsDigit(t[j])
     /\ (p = 1 \/ ~IsDigit(t[p - 1]))
     /\ (p + n - 1 = Len(t) \/ ~IsDigit(t[p + n]))}

\* \D{0,20} from position e: the positions it can end before.
GapEnds(t, e) ==
  {q \in e..(e + MaxGap) :
     /\ q <= Len(t) + 1
     /\ \A j \in e..(q - 1) : ~IsDigit(t[j])}

Min(S) == CHOOSE x \in S : \A y \in S : x <= y

\* keyword \D{0,20} (run), matched from position i: the runs <<p, n>>.
KeywordFirstAt(t, i) ==
  LET ends == KeywordEnds(t, i)
  IN UNION {UNION {{<<q, n>> : n \in RunLengths(t, q)} : q \in GapEnds(t, e)} :
            e \in ends}

\* (run) \D{0,20} keyword, matched from position p: the run lengths.
RunFirstAt(t, p) ==
  {n \in RunLengths(t, p) :
     \E q \in GapEnds(t, p + n) : KeywordEnds(t, q) # {}}

NoMatch == <<>>

\* A first search that never matches: the keyword-first pattern left out.
SearchKeywordFirstNever(t) == NoMatch

\* re.search of the first pattern (line 111): group(1) of the leftmost match.
SearchKeywordFirst(t) ==
  LET starts == {i \in 1..Len(t) : KeywordFirstAt(t, i) # {}}
  IN IF starts = {} THEN NoMatch
     ELSE LET pn == CHOOSE x \in KeywordFirstAt(t, Min(starts)) : TRUE
          IN <<SubSeq(t, pn[1], pn[1] + pn[2] - 1)>>

\* re.search of the second pattern (line 113).
SearchRunFirst(t) ==
  LET starts == {p \in 1..Len(t) : RunFirstAt(t, p) # {}}
  IN IF starts = {} THEN NoMatch
     ELSE LET p == Min(starts)
              n == CHOOSE x \in RunFirstAt(t, p) : TRUE
          IN <<SubSeq(t, p, p + n - 1)>>

\* re.search of the fallback pattern (line 116).
SearchAnyRun(t) ==
  LET starts == {p \in 1..Len(t) : RunLengths(t, p) # {}}
  IN IF starts = {} THEN NoMatch
     ELSE LET p == Min(starts)
              n == CHOOSE x \in RunLengths(t, p) : TRUE
          IN <<SubSeq(t, p, p + n - 1)>>

\* A strip that removes one whitespace character at each end at most.
StripOne(t) ==
  LET a == IF t # <<>> /\ IsSpace(t[1]) THEN 2 ELSE 1
      b == IF Len(t) >= a /\ IsSpace(t[Len(t)]) THEN Len(t) - 1 ELSE Len(t)
  IN SubSeq(t, a, b)

\* str.strip(): leading and trailing whitespace removed.
Strip(t) ==
  LET keep == {i \in 1..Len(t) : ~IsSpace(t[i])}
  IN IF keep = {} THEN <<>>
     ELSE SubSeq(t, Min(keep), CHOOSE x \in keep : \A y \in keep : y <= x)

\* An extract_code whose fallback returns the text as it was given.
extract_code_untrimmed(text) ==
  LET t == Strip(text)
      m1 == SearchKeywordFirst(t)
      m2 == IF m1 # NoMatch THEN m1 ELSE SearchRunFirst(t)
      m3 == IF m2 # NoMatch THEN m2 ELSE SearchAnyRun(t)
  IN IF t = <<>> THEN <<>>
     ELSE IF m3 # NoMatch THEN m3[1] ELSE text

\* extract_code(text): a match is <<group(1)>>, no match is <<>>.
extract_code(text) ==
  LET t == Strip(text)
      m1 == SearchKeywordFirst(t)
      m2 == IF m1 # NoMatch THEN m1 ELSE SearchRunFirst(t)
      m3 == IF m2 # NoMatch THEN m2 ELSE SearchAnyRun(t)
  IN IF t = <<>> THEN <<>>
     ELSE IF m3 # NoMatch THEN m3[1] ELSE t

\* The pieces the input texts of the model are made of: a keyword, two
\* digit runs, one digit, a space, and twenty letters (the longest gap).
PieceCode == <<"c", "o", "d", "e">>
PieceRunA == <<"1", "2", "3", "4">>
PieceRunB == <<"5", "6", "7", "8">>
PieceDigit == <<"9">>
PieceSpace == <<" ">>
PieceFiller == [i \in 1..MaxGap |-> "y"]

Pieces ==
  {PieceCode, PieceRunA, PieceRunB, PieceDigit, PieceSpace, PieceFiller}

\* The most pieces in one text.
MaxPieces == 4

RECURSIVE Flatten(_)
Flatten(ps) == IF ps = <<>> THEN <<>> ELSE Head(ps) \o Flatten(Tail(ps))

\* u8ba2 u5355 u53f7 20260215 uff0c u9a8c u8bc1 u7801 654321 u3002, the text
\* of the unit test at test_extract_code.py line 21.
TextOrder ==
  <<"u8ba2", "u5355", "u53f7", "2", "0", "2", "6", "0", "2", "1", "5", "uff0c",
    "u9a8c", "u8bc1", "u7801", "6", "5", "4", "3", "2", "1", "u3002">>

Gap(k) == [i \in 1..k |-> "x"]

\* No gap, the longest gap \D{0,20} allows, and one character more.
GapLengths == {0, MaxGap, MaxGap + 1}

\* A run, a gap, a keyword, a gap, another run.
GapTexts ==
  {PieceRunA \o Gap(k) \o PieceCode \o Gap(j) \o PieceRunB :
     k \in GapLengths, j \in GapLengths}

\* Nine digits: a number too long for \d{4,8}.
LongRun == PieceRunA \o PieceRunB \o PieceDigit

\* A long number and a run of four digits, around a keyword.
LongRunTexts ==
  {Flatten(<<PieceCode, PieceSpace, LongRun, PieceSpace, PieceRunB>>),
   Flatten(<<LongRun, PieceSpace, PieceCode, PieceSpace, PieceRunB>>),
   Flatten(<<PieceRunB, PieceSpace, LongRun, PieceCode>>)}

\* The arguments of extract_code in the model.
Texts ==
  {Flatten(ps) : ps \in UNION {[1..k -> Pieces] : k \in 0..MaxPieces}}
    \cup GapTexts \cup LongRunTexts \cup {TextOrder}

(***************************************************************************)
(* Part 2.  Inbound frames (cp_client.py lines 163-170)                    *)
(***************************************************************************)

\* A frame is its characters (raw) and what json.loads makes of them:
\* "object" (a JSON object; fields holds the value of "text", if any),
\* "other" (a JSON value that is no object) or "invalid" (no JSON).
FrameCode ==
  [raw |-> <<"{", "\"", "t", "e", "x", "t", "\"", ":", "\"",
             "u9a8c", "u8bc1", "u7801", "9", "3", "1", "0", "1", "8",
             "\"", "}">>,
   json |-> "object", has_text |-> TRUE,
   text |-> <<"u9a8c", "u8bc1", "u7801", "9", "3", "1", "0", "1", "8">>]

FrameShort ==
  [raw |-> <<"{", "\"", "t", "e", "x", "t", "\"", ":", "\"",
             "S", "e", "c", "u", "r", "i", "t", "y", " ", "c", "o", "d", "e",
             " ", "i", "s", " ", "1", "2", "3", ".", "\"", "}">>,
   json |-> "object", has_text |-> TRUE,
   text |-> <<"S", "e", "c", "u", "r", "i", "t", "y", " ", "c", "o", "d", "e",
              " ", "i", "s", " ", "1", "2", "3", ".">>]

FrameNoText ==
  [raw |-> <<"{", "\"", "i", "d", "\"", ":", "7", "7", "7", "7", "}">>,
   json |-> "object", has_text |-> FALSE, text |-> <<>>]

FrameInvalid ==
  [raw |-> <<"o", "t", "p", " ", "4", "8", "3", "1">>,
   json |-> "invalid", has_text |-> FALSE, text |-> <<>>]

\* A JSON number: json.loads returns an int, whose .get raises.
FrameOther ==
  [raw |-> <<"4", "8", "2", "9", "1", "3">>,
   json |-> "other", has_text |-> FALSE, text |-> <<>>]

Frames == {FrameCode, FrameShort, FrameNoText, FrameInvalid, FrameOther}

\* Lines 163-167: str(data.get("text", "")) for an object (the default ""
\* when it has no "text"); json.loads or .get raising gives str(msg).
RawText(frame) ==
  IF frame.json = "object"
  THEN (IF frame.has_text THEN frame.text ELSE <<>>)
  ELSE frame.raw

\* Lines 169-170: the text handed to pyperclip.copy, <<>> for none.
ClipboardText(frame) == extract_code(RawText(frame))

\* Evaluated once: the write each frame of the model causes.
WriteOf == [f \in Frames |-> ClipboardText(f)]

\* A string of 4 to 8 digits.
IsCode(t) ==
  /\ Len(t) >= MinDigits
  /\ Len(t) <= MaxDigits
  /\ \A i \in 1..Len(t) : IsDigit(t[i])

(***************************************************************************)
(* Part 3.  ClientRunner (cp_client.py lines 124-232)                      *)
(***************************************************************************)

\* Bounds of the model.
MaxStarts == 2
MaxStops == 2
MaxFails == 7
MaxFrames == 2

\* min(retry * 2, 30), lines 189 and 198.
RetryCeiling == 30

Workers == 1..MaxStarts

None == 0

Statuses == {"idle", "connecting", "connected", "disconnected", "error", "stopped"}

\* The threads that call set_status or get_status at the same time.
MaxCallers == 2

Callers == 1..MaxCallers

VARIABLES
  stop_event,   \* self.stop_event is set
  status,       \* self._status
  self_loop,    \* self.loop: None, or the loop of worker w
  self_ws,      \* self.ws: None, or the connection of worker w
  self_thread,  \* self.thread: None, or the thread of worker w
  pc,           \* where each worker thread stands
  retry,        \* run()'s local retry, per worker
  loop_state,   \* each worker's event loop: none, new, running, closed
  conn,         \* each worker's connection: none, open, closing
  tasks,        \* _shutdown_ws coroutines scheduled on each loop, not yet run
  stops,        \* the stop() calls at each line of stop()
  clipboard,    \* the texts written with pyperclip.copy, in order
  nstarts,      \* start_in_thread() calls so far
  nframes,      \* frames received so far
  fails,        \* history: backoff sleeps of the worker since it last connected
  slept,        \* history: the delay of the backoff sleep the worker is in
  ended,        \* history: how the worker's last connection attempt ended
  stop_at,      \* history: the status when stop() was last called
  status_lock,  \* self._status_lock: None, or the caller that holds it
  cpc,          \* where each caller of set_status/get_status stands
  cval,         \* each caller's argument (set_status) or value read (get_status)
  committed,    \* history: the argument of the last completed set_status
  text,         \* the argument of an extract_code call
  code,         \* what that call returned
  twice         \* what extract_code returned for that result

vars ==
  <<stop_event, status, self_loop, self_ws, self_thread, pc, retry, loop_state,
    conn, tasks, stops, clipboard, nstarts, nframes, fails, slept, ended, stop_at,
    status_lock, cpc, cval, committed, text, code, twice>>

runner == <<stop_event, status, self_loop, self_ws, self_thread>>
worker == <<pc, retry, loop_state, conn>>
history == <<fails, slept, ended, stop_at>>
register == <<status_lock, cpc, cval, committed>>
extraction == <<text, code, twice>>

StopLines == {"check", "call", "wait", "join", "returned", "raised"}

\* The value of code and of twice while extract_code has not returned; a
\* returned string r is <<r>>.
NotCalled == <<>>

\* A ClientRunner after __init__ (lines 125-131), no thread in a call.
InitRunner ==
  /\ stop_event = FALSE
  /\ status = "idle"
  /\ self_loop = None
  /\ self_ws = None
  /\ self_thread = None
  /\ pc = [w \in Workers |-> "unstarted"]
  /\ retry = [w \in Workers |-> 1]
  /\ loop_state = [w \in Workers |-> "none"]
  /\ conn = [w \in Workers |-> "none"]
  /\ tasks = [w \in Workers |-> 0]
  /\ stops = [l \in StopLines |-> 0]
  /\ clipboard = <<>>
  /\ nstarts = 0
  /\ nframes = 0
  /\ fails = [w \in Workers |-> 0]
  /\ slept = [w \in Workers |-> 0]
  /\ ended = [w \in Workers |-> "none"]
  /\ stop_at = "none"
  /\ status_lock = None
  /\ cpc = [c \in Callers |-> "idle"]
  /\ cval = [c \in Callers |-> "none"]
  /\ committed = "idle"

Init ==
  /\ InitRunner
  /\ text = <<>>
  /\ code = NotCalled
  /\ twice = NotCalled

\* ---------------------------------------------------------------- run()

\* Line 142 and line 158: retry = 1.
InitialRetry == 1

\* A doubling that forgets the ceiling.
NextRetryUncapped(r) == r * 2

\* Lines 189 and 198: retry = min(retry * 2, 30).
NextRetry(r) == IF r * 2 < RetryCeiling THEN r * 2 ELSE RetryCeiling

\* A loop that never tests the stop signal.
LoopExitsNever(w) == FALSE

\* A loop that also gives up once the delay has reached the ceiling.
LoopExitsAtCeiling(w) == stop_event \/ retry[w] >= RetryCeiling

\* Line 144: the while loop is left when stop_event is set.
LoopExits(w) == stop_event

\* A normal close reported as an error.
StatusAfterCloseAsError == "error"

\* Line 184: the status after the receive loop ended without an exception.
StatusAfterClose == "disconnected"

\* Line 195: the status after an exception.
StatusAfterException == "error"

\* A _shutdown_ws that never finds a connection to close.
ShutdownTargetNone == None

\* Lines 203-205: the connection _shutdown_ws closes (None: it returns).
ShutdownTarget == self_ws

\* The worker is suspended in an await: other tasks of its loop can run.
AwaitLines == {"connecting", "recv", "sleep_d", "sleep_e"}

SleepLines == {"sleep_d", "sleep_e"}

\* Lines 191-197, the handler of `except Exception`; `how` is what raised.
ExceptHandler(w, how) ==
  /\ conn' = [conn EXCEPT ![w] = "none"]
  /\ ended' = [ended EXCEPT ![w] = how]
  /\ IF stop_event
     THEN /\ pc' = [pc EXCEPT ![w] = "exit"]
          /\ UNCHANGED <<self_ws, status, slept>>
     ELSE /\ self_ws' = None
          /\ status' = StatusAfterException
          /\ slept' = [slept EXCEPT ![w] = retry[w]]
          /\ pc' = [pc EXCEPT ![w] = "sleep_e"]

\* Lines 177-188: the receive loop has ended without an exception.
LoopEnd(w, how) ==
  /\ self_ws' = None
  /\ conn' = [conn EXCEPT ![w] = "none"]
  /\ IF stop_event
     THEN /\ pc' = [pc EXCEPT ![w] = "exit"]
          /\ ended' = [ended EXCEPT ![w] =
                         IF how = "discarded" THEN how ELSE "stopped"]
          /\ UNCHANGED <<status, slept>>
     ELSE /\ status' = StatusAfterClose
          /\ ended' = [ended EXCEPT ![w] = how]
          /\ slept' = [slept EXCEPT ![w] = retry[w]]
          /\ pc' = [pc EXCEPT ![w] = "sleep_d"]

\* Lines 144-148: the loop test, then set_status("connecting") and the
\* start of the handshake.
WhileTest(w) ==
  /\ pc[w] = "top"
  /\ IF LoopExits(w)
     THEN /\ pc' = [pc EXCEPT ![w] = "exit"]
          /\ UNCHANGED status
     ELSE /\ pc' = [pc EXCEPT ![w] = "connecting"]
          /\ status' = "connecting"
  /\ ended' = [ended EXCEPT ![w] = "none"]
  /\ UNCHANGED <<register, extraction>>
  /\ UNCHANGED <<stop_event, self_loop, self_ws, self_thread, retry, loop_state,
                 conn, tasks, stops, clipboard, nstarts, nframes, fails, slept,
                 stop_at>>

\* Lines 148-158: the handshake succeeds.
ConnectOk(w) ==
  /\ pc[w] = "connecting"
  /\ conn' = [conn EXCEPT ![w] = "open"]
  /\ self_ws' = w
  /\ status' = "connected"
  /\ retry' = [retry EXCEPT ![w] = InitialRetry]
  /\ fails' = [fails EXCEPT ![w] = 0]
  /\ ended' = [ended EXCEPT ![w] = "none"]
  /\ pc' = [pc EXCEPT ![w] = "recv"]
  /\ UNCHANGED <<register, extraction>>
  /\ UNCHANGED <<stop_event, self_loop, self_thread, loop_state, tasks, stops,
                 clipboard, nstarts, nframes, slept, stop_at>>

\* Line 148 raises: the handshake fails.
ConnectFail(w) ==
  /\ pc[w] = "connecting"
  /\ stop_event \/ fails[w] < MaxFails
  /\ ExceptHandler(w, "connect_failed")
  /\ UNCHANGED <<register, extraction>>
  /\ UNCHANGED <<stop_event, self_loop, self_thread, retry, loop_state, tasks,
                 stops, clipboard, nstarts, nframes, fails, stop_at>>

\* A receive loop that handles a message whatever the stop signal is.
StopSeenNever == FALSE

\* Line 161: `if self.stop_event.is_set()`, tested for each message.
StopSeen == stop_event

\* Lines 160-175: one message of the receive loop; copy_ok is whether
\* pyperclip.copy returns (it raises otherwise).
RecvFrame(w, frame, copy_ok) ==
  /\ pc[w] = "recv"
  /\ conn[w] \in {"open", "closing"}
  /\ nframes < MaxFrames
  /\ nframes' = nframes + 1
  /\ IF StopSeen
     THEN /\ LoopEnd(w, "discarded")
          /\ UNCHANGED clipboard
     ELSE IF WriteOf[frame] = <<>>
     THEN UNCHANGED <<self_ws, status, pc, conn, clipboard, slept, ended>>
     ELSE IF copy_ok
     THEN /\ clipboard' = Append(clipboard, WriteOf[frame])
          /\ UNCHANGED <<self_ws, status, pc, conn, slept, ended>>
     ELSE /\ fails[w] < MaxFails
          /\ ExceptHandler(w, "copy_failed")
          /\ UNCHANGED clipboard
  /\ UNCHANGED <<register, extraction>>
  /\ UNCHANGED <<stop_event, self_loop, self_thread, retry, loop_state, tasks,
                 stops, nstarts, fails, stop_at>>

\* Line 160 ends: the remote end closes the connection normally.
RemoteClose(w) ==
  /\ pc[w] = "recv"
  /\ conn[w] = "open"
  /\ stop_event \/ fails[w] < MaxFails
  /\ LoopEnd(w, "closed")
  /\ UNCHANGED <<register, extraction>>
  /\ UNCHANGED <<stop_event, self_loop, self_thread, retry, loop_state, tasks,
                 stops, clipboard, nstarts, nframes, fails, stop_at>>

\* Line 160 ends or raises: the close that _shutdown_ws started completes
\* (ok), or the connection is dropped when it does not.
CloseDone(w, ok) ==
  /\ pc[w] = "recv"
  /\ conn[w] = "closing"
  /\ stop_event \/ fails[w] < MaxFails
  /\ IF ok THEN LoopEnd(w, "closed") ELSE ExceptHandler(w, "exception")
  /\ UNCHANGED <<register, extraction>>
  /\ UNCHANGED <<stop_event, self_loop, self_thread, retry, loop_state, tasks,
                 stops, clipboard, nstarts, nframes, fails, stop_at>>

\* Line 160 raises: a transport exception (reset, ping timeout, oversize).
TransportError(w) ==
  /\ pc[w] = "recv"
  /\ conn[w] \in {"open", "closing"}
  /\ stop_event \/ fails[w] < MaxFails
  /\ ExceptHandler(w, "exception")
  /\ UNCHANGED <<register, extraction>>
  /\ UNCHANGED <<stop_event, self_loop, self_thread, retry, loop_state, tasks,
                 stops, clipboard, nstarts, nframes, fails, stop_at>>

\* Lines 188-189 and 197-198: stop_event.wait(retry) returns (the event is
\* set, or the delay has passed), and retry is doubled.
SleepDone(w) ==
  /\ pc[w] \in SleepLines
  /\ retry' = [retry EXCEPT ![w] = NextRetry(retry[w])]
  /\ fails' = [fails EXCEPT ![w] = fails[w] + 1]
  /\ slept' = [slept EXCEPT ![w] = 0]
  /\ pc' = [pc EXCEPT ![w] = "top"]
  /\ UNCHANGED <<register, extraction>>
  /\ UNCHANGED <<runner, loop_state, conn, tasks, stops, clipboard, nstarts,
                 nframes, ended, stop_at>>

\* Line 200: set_status("stopped"); run() returns.
Exit(w) ==
  /\ pc[w] = "exit"
  /\ status' = "stopped"
  /\ pc' = [pc EXCEPT ![w] = "finished"]
  /\ UNCHANGED <<register, extraction>>
  /\ UNCHANGED <<stop_event, self_loop, self_ws, self_thread, retry, loop_state,
                 conn, tasks, stops, clipboard, nstarts, nframes, history>>

\* ------------------------------------------------------- _shutdown_ws()

\* Lines 202-209, run by loop w while run() is suspended.  A connection of
\* another loop is closed from the wrong thread: it may close or not.
ShutdownWs(w, works) ==
  /\ tasks[w] > 0
  /\ loop_state[w] = "running"
  /\ pc[w] \in AwaitLines
  /\ tasks' = [tasks EXCEPT ![w] = tasks[w] - 1]
  /\ LET ws == ShutdownTarget
     IN IF ws # None /\ conn[ws] = "open" /\ (ws = w \/ works)
        THEN conn' = [conn EXCEPT ![ws] = "closing"]
        ELSE UNCHANGED conn
  /\ UNCHANGED <<register, extraction>>
  /\ UNCHANGED <<runner, pc, retry, loop_state, stops, clipboard, nstarts,
                 nframes, history>>

\* ---------------------------------------------------- start_in_thread()

\* A start_in_thread that clears the stop signal before it starts the thread.
start_in_thread_clearing ==
  /\ nstarts < MaxStarts
  /\ nstarts' = nstarts + 1
  /\ self_thread' = nstarts + 1
  /\ stop_event' = FALSE
  /\ pc' = [pc EXCEPT ![nstarts + 1] = "spawned"]
  /\ UNCHANGED <<register, extraction>>
  /\ UNCHANGED <<status, self_loop, self_ws, retry, loop_state, conn, tasks,
                 stops, clipboard, nframes, history>>

\* Lines 211-221: a new thread is created, stored in self.thread, started.
start_in_thread ==
  /\ nstarts < MaxStarts
  /\ nstarts' = nstarts + 1
  /\ self_thread' = nstarts + 1
  /\ pc' = [pc EXCEPT ![nstarts + 1] = "spawned"]
  /\ UNCHANGED <<register, extraction>>
  /\ UNCHANGED <<stop_event, status, self_loop, self_ws, retry, loop_state,
                 conn, tasks, stops, clipboard, nframes, history>>

\* Lines 213-214: worker() stores a new event loop in self.loop.
WorkerNewLoop(w) ==
  /\ pc[w] = "spawned"
  /\ self_loop' = w
  /\ loop_state' = [loop_state EXCEPT ![w] = "new"]
  /\ pc' = [pc EXCEPT ![w] = "loop_new"]
  /\ UNCHANGED <<register, extraction>>
  /\ UNCHANGED <<stop_event, status, self_ws, self_thread, retry, conn, tasks,
                 stops, clipboard, nstarts, nframes, history>>

\* Line 216 and line 142: the loop runs run(), which starts with retry = 1.
WorkerRunLoop(w) ==
  /\ pc[w] = "loop_new"
  /\ loop_state' = [loop_state EXCEPT ![w] = "running"]
  /\ retry' = [retry EXCEPT ![w] = InitialRetry]
  /\ pc' = [pc EXCEPT ![w] = "top"]
  /\ UNCHANGED <<register, extraction>>
  /\ UNCHANGED <<runner, conn, tasks, stops, clipboard, nstarts, nframes,
                 history>>

\* Lines 216-218: run_until_complete returns, the loop is closed and the
\* thread ends; coroutines still scheduled on the loop never run.
WorkerEnd(w) ==
  /\ pc[w] = "finished"
  /\ loop_state' = [loop_state EXCEPT ![w] = "closed"]
  /\ tasks' = [tasks EXCEPT ![w] = 0]
  /\ pc' = [pc EXCEPT ![w] = "done"]
  /\ UNCHANGED <<register, extraction>>
  /\ UNCHANGED <<runner, retry, conn, stops, clipboard, nstarts, nframes,
                 history>>

\* ---------------------------------------------------------------- stop()

StopsBegun ==
  stops["check"] + stops["call"] + stops["wait"] + stops["join"]
    + stops["returned"] + stops["raised"]

Move(from, to) ==
  /\ stops[from] > 0
  /\ stops' = [stops EXCEPT ![from] = stops[from] - 1, ![to] = stops[to] + 1]

\* Line 224: stop_event.set().
StopBegin ==
  /\ StopsBegun < MaxStops
  /\ stop_event' = TRUE
  /\ stops' = [stops EXCEPT !["check"] = stops["check"] + 1]
  /\ stop_at' = status
  /\ UNCHANGED <<register, extraction>>
  /\ UNCHANGED <<status, self_loop, self_ws, self_thread, worker, tasks,
                 clipboard, nstarts, nframes, fails, slept, ended>>

\* Line 225: if self.loop and self.loop.is_running().
StopCheck ==
  /\ IF self_loop # None /\ loop_state[self_loop] = "running"
     THEN Move("check", "call")
     ELSE Move("check", "join")
  /\ UNCHANGED <<register, extraction>>
  /\ UNCHANGED <<runner, worker, tasks, clipboard, nstarts, nframes, history>>

\* A stop() that closes self.ws itself, from the calling thread, instead of
\* scheduling _shutdown_ws on the loop.
StopCallClosesDirectly ==
  /\ stops["call"] > 0
  /\ Move("call", "wait")
  /\ IF self_ws # None /\ conn[self_ws] = "open"
     THEN conn' = [conn EXCEPT ![self_ws] = "closing"]
     ELSE UNCHANGED conn
  /\ UNCHANGED <<register, extraction>>
  /\ UNCHANGED <<runner, pc, retry, loop_state, tasks, clipboard, nstarts,
                 nframes, history>>

\* Line 226: asyncio.run_coroutine_threadsafe(self._shutdown_ws(), self.loop),
\* outside the try: on a closed loop call_soon_threadsafe raises RuntimeError.
StopCall ==
  /\ stops["call"] > 0
  /\ IF loop_state[self_loop] = "closed"
     THEN /\ Move("call", "raised")
          /\ UNCHANGED tasks
     ELSE /\ Move("call", "wait")
          /\ tasks' = [tasks EXCEPT ![self_loop] = tasks[self_loop] + 1]
  /\ UNCHANGED <<register, extraction>>
  /\ UNCHANGED <<runner, worker, clipboard, nstarts, nframes, history>>

\* Lines 227-230: future.result(timeout) returns or raises (swallowed).
StopWait ==
  /\ Move("wait", "join")
  /\ UNCHANGED <<register, extraction>>
  /\ UNCHANGED <<runner, worker, tasks, clipboard, nstarts, nframes, history>>

\* Lines 231-232: self.thread.join(timeout) returns (joined or timed out).
StopJoin ==
  /\ Move("join", "returned")
  /\ UNCHANGED <<register, extraction>>
  /\ UNCHANGED <<runner, worker, tasks, clipboard, nstarts, nframes, history>>

\* Lines 223-232: what the caller of stop() gets, by whether the worker
\* thread is still alive when join returns: stop() has no return statement
\* and no log call, whatever join did.
StopResult(alive) == [value |-> "None", logged |-> <<>>]

\* The step in which self.thread.join(timeout) returns by its timeout.
JoinTimesOut ==
  /\ StopJoin
  /\ self_thread # None
  /\ pc[self_thread] # "done"

\* ------------------------------------- set_status() and get_status()

\* run() above takes each of its set_status calls as one step.  The
\* actions below take the register alone, lock by lock: any thread calls
\* set_status with one of the values run() passes, or get_status.

\* The arguments of set_status in run(): lines 146, 156, 184, 195, 200.
SetValues == {"connecting", "connected", "disconnected", "error", "stopped"}

\* A get_status that does not wait for the lock.
GetEntersUnlocked == TRUE

\* Line 138: `with self._status_lock` is entered when no thread holds it.
GetEnters == status_lock = None

\* Line 134: set_status(v) acquires the lock.
SetAcquire(c, v) ==
  /\ cpc[c] = "idle"
  /\ status_lock = None
  /\ status_lock' = c
  /\ cpc' = [cpc EXCEPT ![c] = "set_held"]
  /\ cval' = [cval EXCEPT ![c] = v]
  /\ UNCHANGED <<status, committed>>

\* Line 135: self._status = status.
SetWrite(c) ==
  /\ cpc[c] = "set_held"
  /\ status' = cval[c]
  /\ cpc' = [cpc EXCEPT ![c] = "set_written"]
  /\ UNCHANGED <<status_lock, cval, committed>>

\* Line 135, leaving the with block: the lock is released, set_status
\* returns.
SetRelease(c) ==
  /\ cpc[c] = "set_written"
  /\ status_lock' = None
  /\ committed' = cval[c]
  /\ cpc' = [cpc EXCEPT ![c] = "idle"]
  /\ cval' = [cval EXCEPT ![c] = "none"]
  /\ UNCHANGED status

\* Line 138: get_status() acquires the lock.
GetAcquire(c) ==
  /\ cpc[c] = "idle"
  /\ GetEnters
  /\ status_lock' = c
  /\ cpc' = [cpc EXCEPT ![c] = "get_held"]
  /\ UNCHANGED <<status, cval, committed>>

\* Line 139: self._status is read for the return.
GetRead(c) ==
  /\ cpc[c] = "get_held"
  /\ cval' = [cval EXCEPT ![c] = status]
  /\ cpc' = [cpc EXCEPT ![c] = "get_read"]
  /\ UNCHANGED <<status, status_lock, committed>>

\* Line 139, leaving the with block: the lock is released, get_status
\* returns the value read.
GetRelease(c) ==
  /\ cpc[c] = "get_read"
  /\ status_lock' = None
  /\ cpc' = [cpc EXCEPT ![c] = "idle"]
  /\ cval' = [cval EXCEPT ![c] = "none"]
  /\ UNCHANGED <<status, committed>>

\* Everything of the runner but its status.
besides ==
  <<stop_event, self_loop, self_ws, self_thread, worker, tasks, stops,
    clipboard, nstarts, nframes, history>>

NextStatus ==
  /\ \E c \in Callers :
       \/ \E v \in SetValues : SetAcquire(c, v)
       \/ SetWrite(c)
       \/ SetRelease(c)
       \/ GetAcquire(c)
       \/ GetRead(c)
       \/ GetRelease(c)
  /\ UNCHANGED <<besides, extraction>>

\* ------------------------------------------------------- extract_code()

\* extract_code(text) is called and returns.
Extract ==
  /\ code = NotCalled
  /\ code' = <<extract_code(text)>>
  /\ UNCHANGED <<text, twice>>

\* extract_code is called with what it returned.
ExtractAgain ==
  /\ code # NotCalled
  /\ twice = NotCalled
  /\ twice' = <<extract_code(code[1])>>
  /\ UNCHANGED <<text, code>>

InitExtract ==
  /\ InitRunner
  /\ text \in Texts
  /\ code = NotCalled
  /\ twice = NotCalled

NextExtract ==
  /\ Extract \/ ExtractAgain
  /\ UNCHANGED <<status, besides, register>>

\* ------------------------------------------------------ specifications

WorkerStep(w) ==
  \/ WorkerNewLoop(w)
  \/ WorkerRunLoop(w)
  \/ WhileTest(w)
  \/ SleepDone(w)
  \/ Exit(w)
  \/ WorkerEnd(w)
  \/ \E works \in BOOLEAN : ShutdownWs(w, works)
  \/ \E ok \in BOOLEAN : CloseDone(w, ok)

Handshake(w) == ConnectOk(w) \/ ConnectFail(w)

Traffic(w) ==
  \/ \E frame \in Frames, copy_ok \in BOOLEAN : RecvFrame(w, frame, copy_ok)
  \/ RemoteClose(w)
  \/ TransportError(w)

StopStep == StopCheck \/ StopCall \/ StopWait \/ StopJoin

\* The runner as the program drives it (run_with_tray, lines 244-258): one
\* start_in_thread(), then stop() calls from any thread.
StartOnce == nstarts = 0 /\ start_in_thread

Next ==
  \/ StartOnce
  \/ StopBegin
  \/ StopStep
  \/ \E w \in Workers : WorkerStep(w) \/ Handshake(w) \/ Traffic(w)

Spec == Init /\ [][Next]_vars

\* Traffic with fewer failures in a row and fewer frames, for the
\* specifications whose state space the full Traffic would make too large.
FewFails == 1
FewFrames == 1

FewTraffic(w) ==
  \/ /\ nframes < FewFrames
     /\ \E frame \in Frames, copy_ok \in BOOLEAN : RecvFrame(w, frame, copy_ok)
  \/ /\ stop_event \/ fails[w] < FewFails
     /\ (ConnectFail(w) \/ RemoteClose(w) \/ TransportError(w))

\* Every use of the public methods: start_in_thread() any number of times
\* too.
NextApi ==
  \/ start_in_thread
  \/ StopBegin
  \/ StopStep
  \/ \E w \in Workers : WorkerStep(w) \/ ConnectOk(w) \/ FewTraffic(w)

SpecApi == Init /\ [][NextApi]_vars

\* The status register under calls from several threads.
SpecStatus == Init /\ [][NextStatus]_vars

\* extract_code on every text of Texts.
SpecExtract == InitExtract /\ [][NextExtract]_vars

\* One start_in_thread(), as in Next, with the lower traffic bounds.
NextFew ==
  \/ StartOnce
  \/ StopBegin
  \/ StopStep
  \/ \E w \in Workers : WorkerStep(w) \/ ConnectOk(w) \/ FewTraffic(w)

\* The scheduling the code relies on: a thread that can run does, a
\* handshake ends (open_timeout), a timed wait returns.  Nothing makes the
\* remote end send or close, and nothing makes anyone call start or stop.
Fairness ==
  /\ \A w \in Workers :
       /\ WF_vars(WorkerNewLoop(w) \/ WorkerRunLoop(w) \/ WhileTest(w))
       /\ WF_vars(SleepDone(w) \/ Exit(w) \/ WorkerEnd(w))
       /\ WF_vars(\E works \in BOOLEAN : ShutdownWs(w, works))
       /\ WF_vars(\E ok \in BOOLEAN : CloseDone(w, ok))
       /\ WF_vars(Handshake(w))
  /\ WF_vars(StopStep)

FairSpec == Init /\ [][NextFew]_vars /\ Fairness

\* A start_in_thread() on a runner whose stop() has been called and whose
\* earlier thread, if any, has come to the end of its worker function.
StartAfterStop ==
  /\ stop_event
  /\ \A w \in Workers : pc[w] \in {"unstarted", "finished", "done"}
  /\ start_in_thread

\* A handshake that fails before stop(), up to FewFails times in a row.
FewConnectFail(w) == ~stop_event /\ fails[w] < FewFails /\ ConnectFail(w)

\* One start_in_thread() at any time and further ones after stop(), with
\* the scheduling of Fairness and a remote end that refuses or accepts a
\* connection and then neither sends nor closes.
NextRestart ==
  \/ StartOnce
  \/ StartAfterStop
  \/ StopBegin
  \/ StopStep
  \/ \E w \in Workers : WorkerStep(w) \/ ConnectOk(w) \/ FewConnectFail(w)

FairRestart == Init /\ [][NextRestart]_vars /\ Fairness

(***************************************************************************)
(* Part 4.  Properties                                                     *)
(***************************************************************************)

\* The delays of the claim: 1, 2, 4, 8, 16, 30, 30, 30, ...
ExpectedDelay(k) == IF k <= 5 THEN 2 ^ (k - 1) ELSE 30

\* C1: the k-th backoff sleep since the worker last connected (or started)
\* lasts ExpectedDelay(k) seconds, which is the value retry holds, and retry
\* is 1 whenever the worker is connected.
C1_Backoff ==
  \A w \in Workers :
    /\ retry[w] = ExpectedDelay(fails[w] + 1)
    /\ pc[w] \in SleepLines => slept[w] = ExpectedDelay(fails[w] + 1)
    /\ pc[w] = "recv" => retry[w] = 1 /\ fails[w] = 0

\* The seventh sleep in a row: the second one of 30 seconds.
C1_Witness ==
  \E w \in Workers : pc[w] = "sleep_e" /\ fails[w] = 6 /\ slept[w] = 30

\* C2: when a connected worker leaves the receive loop with the stop signal
\* not set, a normal close makes the status disconnected and a transport
\* exception makes it error.
C2_CloseAndException ==
  [][\A w \in Workers :
       (pc[w] = "recv" /\ status = "connected" /\ ~stop_event
          /\ pc'[w] # "recv")
       => /\ ended'[w] = "closed" => status' = "disconnected"
          /\ ended'[w] = "exception" => status' = "error"]_vars

\* A worker whose connection the remote end closed, before any stop().
C2_Witness ==
  \E w \in Workers :
    ended[w] = "closed" /\ status = "disconnected" /\ ~stop_event

\* C3 as claimed: every text written to the clipboard is a string of 4 to 8
\* digits.
C3_OnlyCodesWritten ==
  \A i \in 1..Len(clipboard) : IsCode(clipboard[i])

\* The step in which pyperclip.copy raises for a message of a connected
\* worker.
CopyFails(w) ==
  /\ status = "connected"
  /\ \E frame \in Frames : WriteOf[frame] # <<>> /\ RecvFrame(w, frame, FALSE)
  /\ ended'[w] = "copy_failed"

\* C4 as claimed: when the clipboard write fails, the status stays connected,
\* the connection stays open and the worker stays in the receive loop.
C4_CopyFailureSwallowed ==
  [][\A w \in Workers :
       CopyFails(w)
       => status' = "connected" /\ conn'[w] = "open" /\ pc'[w] = "recv"]_vars

\* C5: a stop() called while the status is connected leads to the status
\* stopped with every started worker thread ended.
C5_StopWhileConnected ==
  (stop_at = "connected")
    ~> (status = "stopped" /\ \A w \in Workers : pc[w] \in {"unstarted", "done"})

\* stop() was called while connected, has returned, and the worker has ended.
C5_Witness ==
  /\ stop_at = "connected"
  /\ status = "stopped"
  /\ stops["returned"] > 0
  /\ \E w \in Workers : pc[w] = "done" /\ ended[w] = "stopped"

\* C6 as claimed: a stop() called while the run loop is connecting,
\* connected or in a backoff sleep leads to the status stopped, with no
\* message and no close from the remote end needed.
C6_StopAnywhere ==
  (stop_at \in {"connecting", "connected", "disconnected", "error"})
    ~> (status = "stopped")

\* C7: the status is stopped, and the run loop is left, only with the stop
\* signal set.
C7_ExitOnlyOnStop ==
  /\ status = "stopped" => stop_event
  /\ \A w \in Workers : pc[w] \in {"exit", "finished", "done"} => stop_event

\* A worker that failed up to the ceiling and then ended on stop().
C7_Witness ==
  \E w \in Workers :
    pc[w] = "done" /\ retry[w] = RetryCeiling /\ status = "stopped"

\* C8 as claimed: once the status is stopped it stays stopped.
C8_StoppedIsTerminal == [][status = "stopped" => status' = "stopped"]_vars

\* C9 as claimed: at most one run loop and at most one connection exist.
C9_OneLoopOneConnection ==
  /\ Cardinality({w \in Workers : pc[w] \notin {"unstarted", "done"}}) <= 1
  /\ Cardinality({w \in Workers : conn[w] # "none"}) <= 1

\* C10 as claimed: no stop() call raises.
C10_StopNeverRaises == stops["raised"] = 0

\* C11 as claimed: a stop() that returns by the timeout of join, with the
\* worker thread still alive, gives its caller a return value or a logged
\* warning that a stop() after a completed shutdown does not give.
C11_TimeoutSignalled ==
  [][JoinTimesOut => StopResult(TRUE) # StopResult(FALSE)]_vars

\* The step in which a worker handles one received message to the end
\* (lines 163-175), with the stop signal not set and the copy not failing.
Handles(w, frame) == ~stop_event /\ RecvFrame(w, frame, TRUE)

\* C12 as claimed: every handled message appends its extraction result to
\* the clipboard writes if that result is a code and writes nothing
\* otherwise, in one step, and nothing else writes: the writes are the codes
\* of the received messages in arrival order.
C12_WritesInArrivalOrder ==
  [][/\ \A w \in Workers, frame \in Frames :
          Handles(w, frame)
          => clipboard' = IF IsCode(WriteOf[frame])
                          THEN Append(clipboard, WriteOf[frame])
                          ELSE clipboard
     /\ clipboard' # clipboard
        => \E w \in Workers, frame \in Frames : Handles(w, frame)]_vars

\* The text the claim gives to extraction: the "text" field of a JSON object
\* that has one, the whole raw frame for every other shape.
ClaimedRawText(frame) ==
  IF frame.json = "object" /\ frame.has_text THEN frame.text ELSE frame.raw

\* C13 as claimed: whenever a message is handled, the text given to
\* extract_code is ClaimedRawText of its frame.
C13_TextGivenToExtraction ==
  [][\A w \in Workers, frame \in Frames :
       Handles(w, frame) => RawText(frame) = ClaimedRawText(frame)]_vars

\* C14: the register holds one of the six status values, and the value a
\* get_status call has read for its return is the argument of the last
\* completed set_status (idle before the first).
C14_StatusRegister ==
  /\ status \in Statuses
  /\ \A c \in Callers :
       cpc[c] = "get_read" => cval[c] = committed /\ cval[c] \in Statuses

\* A get_status that has read the value of a completed set_status.
C14_Witness ==
  \E c \in Callers :
    cpc[c] = "get_read" /\ cval[c] = "connected" /\ committed = "connected"

\* The maximal digit runs of t, as <<first position, length>>.
MaximalRuns(t) ==
  LET starts == {p \in 1..Len(t) :
                   IsDigit(t[p]) /\ (p = 1 \/ ~IsDigit(t[p - 1]))}
      last(p) == CHOOSE q \in p..Len(t) :
                   /\ \A j \in p..q : IsDigit(t[j])
                   /\ (q = Len(t) \/ ~IsDigit(t[q + 1]))
  IN {<<p, last(p) - p + 1>> : p \in starts}

\* The maximal digit runs of 4 to 8 digits: the candidates.
Candidates(t) == {r \in MaximalRuns(t) : r[2] >= 4 /\ r[2] <= 8}

RunText(t, r) == SubSeq(t, r[1], r[1] + r[2] - 1)

RECURSIVE DropLeading(_)
DropLeading(t) ==
  IF t # <<>> /\ IsSpace(Head(t)) THEN DropLeading(Tail(t)) ELSE t

RECURSIVE DropTrailing(_)
DropTrailing(t) ==
  IF t # <<>> /\ IsSpace(t[Len(t)])
  THEN DropTrailing(SubSeq(t, 1, Len(t) - 1))
  ELSE t

\* The text without its leading and trailing whitespace.
Trimmed(t) == DropTrailing(DropLeading(t))

\* C15: for a text with no maximal digit run of 4 to 8 digits, extract_code
\* returns the text without its leading and trailing whitespace, which is
\* the empty string for an empty or whitespace-only text.
C15_NoRunGivesTrimmedText ==
  (code # NotCalled /\ Candidates(text) = {}) => code[1] = Trimmed(text)

\* A text with whitespace at both ends, a keyword and a digit run that is
\* too short.
C15_Witness ==
  /\ code # NotCalled
  /\ Candidates(text) = {}
  /\ MaximalRuns(text) # {}
  /\ IsSpace(text[1]) /\ IsSpace(text[Len(text)])
  /\ KeywordEnds(code[1], 1) # {}

\* The keywords in t, as <<first position, position after the last>>.
KeywordSpans(t) ==
  UNION {{<<i, e>> : e \in KeywordEnds(t, i)} : i \in 1..Len(t)}

\* The run r = <<p, n>> of t lies within MaxGap non-digit characters of the
\* keyword at k: after its end, or before its start.
Near(t, r, k) ==
  LET p == r[1]
      q == r[1] + r[2]
  IN \/ /\ k[2] <= p
        /\ p - k[2] <= MaxGap
        /\ \A j \in k[2]..(p - 1) : ~IsDigit(t[j])
     \/ /\ q <= k[1]
        /\ k[1] - q <= MaxGap
        /\ \A j \in q..(k[1] - 1) : ~IsDigit(t[j])

NearRuns(t) ==
  LET spans == KeywordSpans(t)
  IN {r \in Candidates(t) : \E k \in spans : Near(t, r, k)}

Code654321 == <<"6", "5", "4", "3", "2", "1">>

\* C16: for a text in which exactly one maximal run of 4 to 8 digits lies
\* within 20 non-digit characters of a keyword, extract_code returns that
\* run, whatever other runs the text has; the order text gives 654321.
C16_RunNearKeyword ==
  code # NotCalled =>
    /\ LET near == NearRuns(text)
       IN \A r \in near : near = {r} => code[1] = RunText(text, r)
    /\ text = TextOrder => code[1] = Code654321

\* A text with a run far from any keyword and, later, the one run near one.
C16_Witness ==
  /\ code # NotCalled
  /\ LET near == NearRuns(text)
     IN \E r \in near, o \in Candidates(text) :
          /\ near = {r}
          /\ o[1] < r[1]
          /\ RunText(text, o) # RunText(text, r)
          /\ code[1] = RunText(text, r)

\* extract_code has selected something: what it returned is a string of 4
\* to 8 digits, or is not the whole trimmed text.
Selected == IsCode(code[1]) \/ code[1] # Trimmed(text)

\* C17: what extract_code selects is a maximal digit run of the text with 4
\* to 8 digits, never digits that have further digits directly before or
\* after them in the text.
C17_NoEmbeddedRun ==
  (code # NotCalled /\ Selected)
    => \E r \in Candidates(text) : code[1] = RunText(text, r)

\* A text with a number of more than 8 digits, from which a run of 4 to 8
\* digits elsewhere in the text is returned.
C17_Witness ==
  /\ code # NotCalled
  /\ \E r \in MaximalRuns(text) : r[2] > 8
  /\ \E r \in Candidates(text) : code[1] = RunText(text, r)

\* A string that is not made of digits only (the empty string is not).
NonDigit(t) == \E i \in 1..Len(t) : ~IsDigit(t[i])

\* C18: when extract_code returns a string that is not a digit string,
\* extract_code of that string returns it again.
C18_Idempotent ==
  (twice # NotCalled /\ NonDigit(code[1])) => twice[1] = code[1]

\* A text with whitespace around a keyword and no run of 4 to 8 digits,
\* whose result was given to extract_code again.
C18_Witness ==
  /\ twice # NotCalled
  /\ NonDigit(code[1])
  /\ Len(text) >= Len(code[1]) + 3
  /\ KeywordEnds(code[1], 1) # {}
  /\ twice[1] = code[1]

\* The status changes the claim allows, as <<from, to>>.
ClaimedTransitions ==
  {<<"idle", "connecting">>, <<"connecting", "connected">>,
   <<"connecting", "error">>, <<"connected", "disconnected">>,
   <<"connected", "error">>, <<"disconnected", "connecting">>,
   <<"error", "connecting">>}
    \cup {<<s, "stopped">> :
            s \in {"connecting", "connected", "disconnected", "error"}}

\* C19 as claimed: every change of the status is one of ClaimedTransitions.
C19_OnlyClaimedTransitions ==
  [][status' # status => <<status, status'>> \in ClaimedTransitions]_vars

\* The status of a run loop that is in a backoff sleep, or between the end
\* of the sleep and the next loop test.
SleepStatuses == {"disconnected", "error"}

\* C20: with the stop signal set during a backoff sleep the status does not
\* change to connecting again, and a stop() called then leads to the status
\* stopped.
C20_StopInBackoffSleep ==
  /\ [][(stop_event /\ status \in SleepStatuses)
         => status' \in {status, "stopped"}]_vars
  /\ (stop_at \in SleepStatuses) ~> (status = "stopped")

\* stop() was called during the sleep after an error, and the worker has
\* ended with the status stopped.
C20_Witness ==
  /\ stop_at = "error"
  /\ status = "stopped"
  /\ \E w \in Workers : pc[w] = "done" /\ fails[w] = 1

\* The frames json.loads rejects.
Malformed == {frame \in Frames : frame.json = "invalid"}

\* C21 as claimed: a frame that is no JSON, received by a connected worker
\* with the stop signal not set, leaves the status connected, the connection
\* open, retry as it was and the worker in the receive loop.
C21_MalformedFrameKeepsLoop ==
  [][\A w \in Workers, frame \in Malformed, copy_ok \in BOOLEAN :
       (~stop_event /\ status = "connected" /\ RecvFrame(w, frame, copy_ok))
       => /\ status' = "connected"
          /\ conn'[w] = "open"
          /\ retry'[w] = retry[w]
          /\ pc'[w] = "recv"]_vars

\* A step of worker w's thread: of run() or of a coroutine on its loop.
OnLoop(w) == WorkerStep(w) \/ Handshake(w) \/ Traffic(w)

\* C22: every step that changes a connection (connect, receive ending,
\* close) is a step of the event loop of the worker that owns it, no step of
\* stop() changes one, and a close request that stop() has scheduled waits
\* on the loop that owns self.ws.
C22_ConnectionOnItsLoop ==
  [][/\ \A w \in Workers : conn'[w] # conn[w] => OnLoop(w)
     /\ (StopBegin \/ StopStep) => conn' = conn
     /\ \A w \in Workers :
          (tasks'[w] > 0 /\ self_ws' # None) => self_ws' = w]_vars

\* stop() has handed the close to the loop, and the loop has started to
\* close its connection while stop() waits for the result.
C22_Witness ==
  /\ stops["wait"] > 0
  /\ \E w \in Workers : self_ws = w /\ conn[w] = "closing" /\ pc[w] = "recv"

\* C23: a message received with the stop signal set is not written to the
\* clipboard (nothing is extracted from it), and the worker leaves the
\* receive loop and its connection with that message, on its way to the end
\* of run().
C23_MessageAfterStopDiscarded ==
  [][\A w \in Workers, frame \in Frames, copy_ok \in BOOLEAN :
       (stop_event /\ RecvFrame(w, frame, copy_ok))
       => /\ clipboard' = clipboard
          /\ pc'[w] = "exit"
          /\ conn'[w] = "none"
          /\ self_ws' = None]_vars

\* A worker that has left the receive loop on a message that came after
\* stop(), with nothing written.
C23_Witness ==
  \E w \in Workers :
    ended[w] = "discarded" /\ pc[w] = "exit" /\ clipboard = <<>>

\* Where a worker stands before its first or next connection attempt.
BeforeConnect == {"unstarted", "spawned", "loop_new", "top"}

\* C24: the stop signal is never cleared; a worker that is started, or
\* comes to its loop test, with the signal set makes no connection attempt
\* and changes the status only to stopped; and every thread started with the
\* signal set reaches the end of run() with the status stopped.
C24_StopNeverCleared ==
  /\ [][/\ stop_event => stop_event'
        /\ \A w \in Workers :
             /\ (stop_event /\ pc[w] \in BeforeConnect)
                => /\ pc'[w] \in BeforeConnect \cup {"exit"}
                   /\ conn'[w] = "none"
                   /\ pc'[w] # pc[w] => status' = status
             /\ (pc[w] = "exit" /\ pc'[w] # "exit") => status' = "stopped"]_vars
  /\ \A w \in Workers :
       (stop_event /\ pc[w] = "spawned")
         ~> (status = "stopped" /\ pc[w] = "finished")

\* A second start_in_thread() after stop(): both threads have ended, the
\* second without a connection attempt, and the status is stopped.
C24_Witness ==
  /\ nstarts = 2
  /\ pc[1] = "done" /\ pc[2] = "done"
  /\ retry[2] = InitialRetry /\ fails[2] = 0
  /\ status = "stopped"
====
